---- MODULE Spec2Model ----
(***************************************************************************)
(* Model of find_growth_directories.py: two bdb size reports (old, new)    *)
(* are parsed into dictionaries and the directories that have grown are    *)
(* printed.                                                                *)
(*                                                                         *)
(* Text is modelled character by character: a string is a sequence of      *)
(* one-character strings, a line is a string ending in a newline, a file   *)
(* is a sequence of lines.  Sizes are the non-negative integers that the   *)
(* digit-only tokens of the alphabet denote; on them float arithmetic is   *)
(* exact.  A dict is a sequence of <<key, value>> pairs with unique keys,  *)
(* in insertion order, as Python dicts are.                                *)
(***************************************************************************)
EXTENDS Integers, Sequences, FiniteSets, TLC

VARIABLES
    pc,        \* position of the script: start, open, parse, compare, done
    argc,      \* number of positional arguments, len(sys.argv) - 1
    fileNo,    \* index into sys.argv[-2:] of the report being parsed
    files,     \* what each of the two report paths turned out to hold
    handles,   \* file objects that are open (by report index)
    lines,     \* into_dict: the list of token lists of the current report
    lineNo,    \* into_dict: number of token lists consumed so far
    building,  \* into_dict: the dict under construction
    parsed,    \* results of the list comprehension of line 19 so far
    older,     \* the name older (meaningful once Unpacked)
    newer,     \* the name newer (meaningful once Unpacked)
    pos,       \* number of items of newer the for loop has consumed
    out,       \* lines printed on standard output
    err,       \* what was written to the error stream
    exitCode   \* exit status, -1 while running

vars == <<pc, argc, fileNo, files, handles, lines, lineNo, building, parsed,
          older, newer, pos, out, err, exitCode>>

----------------------------------------------------------------------------
(* Bounds *)

MaxArgs == 3

MaxLines == 2

----------------------------------------------------------------------------
(* Characters and report lines *)

SP == " "
TAB == "\t"
NL == "\n"

IsSpace(c) == c \in {SP, TAB, NL}

DigitChars == <<"0", "1", "2", "3", "4", "5", "6", "7", "8", "9">>

Digit(d) == DigitChars[d + 1]

IsDigit(c) == \E i \in 1..Len(DigitChars) : DigitChars[i] = c

DigitVal(c) == IF IsDigit(c) THEN (CHOOSE i \in 0..9 : DigitChars[i + 1] = c) ELSE 0

\* The report lines an input file is made of, as readlines() returns them.
ReportLines ==
    { <<"a", SP, "1", NL>>,
      <<"a", SP, "3", NL>>,
      <<"a", SP, "b", SP, "2", NL>>,
      <<"a", SP, TAB, "b", SP, "1", "2", "5", NL>>,
      <<"7", NL>>,
      <<NL>>,
      <<"a", SP, "x", NL>> }

FileContents == UNION { [1..n -> ReportLines] : n \in 0..MaxLines }

Unopened == [st |-> "unopened", content |-> <<>>]
Missing == [st |-> "missing", content |-> <<>>]
Readable(c) == [st |-> "read", content |-> c]

FileStates == {Missing} \cup { Readable(c) : c \in FileContents }

----------------------------------------------------------------------------
(* str.split(), str.join(), float() *)

RECURSIVE SplitFrom(_, _, _)
SplitFrom(s, i, cur) ==
    IF i > Len(s)
    THEN (IF cur = <<>> THEN <<>> ELSE <<cur>>)
    ELSE IF IsSpace(s[i])
         THEN (IF cur = <<>> THEN <<>> ELSE <<cur>>) \o SplitFrom(s, i + 1, <<>>)
         ELSE SplitFrom(s, i + 1, Append(cur, s[i]))

Split(s) == SplitFrom(s, 1, <<>>)

RECURSIVE JoinSpace(_)
JoinSpace(toks) ==
    IF Len(toks) = 0 THEN <<>>
    ELSE IF Len(toks) = 1 THEN toks[1]
    ELSE toks[1] \o <<SP>> \o JoinSpace(Tail(toks))

Front(s) == SubSeq(s, 1, Len(s) - 1)

Last(s) == s[Len(s)]

\* Over the alphabet of ReportLines, float() accepts the digit-only tokens.
IsFloat(tok) == Len(tok) > 0 /\ \A i \in 1..Len(tok) : IsDigit(tok[i])

RECURSIVE FloatOf(_)
FloatOf(tok) ==
    IF Len(tok) = 0 THEN 0
    ELSE 10 * FloatOf(Front(tok)) + DigitVal(Last(tok))

----------------------------------------------------------------------------
(* dict *)

DictKeys(d) == { d[i][1] : i \in 1..Len(d) }

DictHas(d, k) == k \in DictKeys(d)

DictIndex(d, k) == CHOOSE i \in 1..Len(d) : d[i][1] = k

DictGet(d, k, default) == IF DictHas(d, k) THEN d[DictIndex(d, k)][2] ELSE default

\* Variant: an existing key keeps its first value (setdefault).
DictPut_keepFirst(d, k, v) ==
    IF DictHas(d, k) THEN d ELSE Append(d, <<k, v>>)

\* Variant: a new key goes to the front, so iteration runs newest first.
DictPut_front(d, k, v) ==
    IF DictHas(d, k)
    THEN [d EXCEPT ![DictIndex(d, k)] = <<k, v>>]
    ELSE <<<<k, v>>>> \o d

\* d[k] = v: a new key is appended, an existing key keeps its place.
DictPut(d, k, v) ==
    IF DictHas(d, k)
    THEN [d EXCEPT ![DictIndex(d, k)] = <<k, v>>]
    ELSE Append(d, <<k, v>>)

----------------------------------------------------------------------------
(* into_dict *)

\* Variant: lines without tokens are dropped (a trailing "if s").
TokenLists_skipBlank(content) ==
    SelectSeq([i \in 1..Len(content) |-> Split(content[i])], LAMBDA s : Len(s) > 0)

\* [ s.split() for s in open(file_name).readlines() ]
TokenLists(content) == [i \in 1..Len(content) |-> Split(content[i])]

\* Variant: a size that is not a number is taken as it comes (as zero).
LineError_noValue(s) == IF Len(s) = 0 THEN "IndexError" ELSE "none"

\* What evaluating ' '.join(s[:-1]) : float(s[-1]) raises, if anything.
LineError(s) ==
    IF Len(s) = 0 THEN "IndexError"
    ELSE IF ~IsFloat(Last(s)) THEN "ValueError"
    ELSE "none"

\* Variant: s[:] for s[:-1], the size stays in the key.
LineKey_all(s) == JoinSpace(s)

LineKey(s) == JoinSpace(Front(s))

LineValue(s) == FloatOf(Last(s))

----------------------------------------------------------------------------
(* '{:.2}'.format(growth) for a positive integral growth *)

RECURSIVE NumDigits(_)
NumDigits(g) == IF g < 10 THEN 1 ELSE 1 + NumDigits(g \div 10)

RECURSIVE Pow10(_)
Pow10(n) == IF n = 0 THEN 1 ELSE 10 * Pow10(n - 1)

\* Two significant digits, ties to even: mantissa m in 10..99 and exponent e.
Round2(g) ==
    LET n == NumDigits(g) IN
    IF n = 1 THEN [m |-> g * 10, e |-> 0]
    ELSE IF n = 2 THEN [m |-> g, e |-> 1]
    ELSE LET scale == Pow10(n - 2)
             q == g \div scale
             r == g % scale
             up == 2 * r > scale \/ (2 * r = scale /\ q % 2 = 1)
             q2 == IF up THEN q + 1 ELSE q
         IN IF q2 = 100 THEN [m |-> 10, e |-> n] ELSE [m |-> q2, e |-> n - 1]

Format2(g) ==
    LET r == Round2(g)
        d1 == r.m \div 10
        d2 == r.m % 10
    IN IF r.e = 0
       THEN <<Digit(d1), ".", Digit(d2)>>
       ELSE <<Digit(d1)>>
            \o (IF d2 = 0 THEN <<>> ELSE <<".", Digit(d2)>>)
            \o <<"e", "+", Digit(r.e \div 10), Digit(r.e % 10)>>

----------------------------------------------------------------------------
(* The script *)

\* sys.argv[-2:] names two reports.
NumReports == 2

\* The length of sys.argv the script asks for.
ArgvLen == 3

\* Variant: only too few arguments are refused.
UsageError_tooFew(n) == n + 1 < ArgvLen

\* len(sys.argv) != 3
UsageError(n) == n + 1 # ArgvLen

\* Variant: the two names are bound the other way round.
Unpack_swapped(p) == [older |-> p[2], newer |-> p[1]]

\* older, newer = [ ... ]
Unpack(p) == [older |-> p[1], newer |-> p[2]]

Unpacked == Len(parsed) = NumReports

Growth(dir, size) == size - DictGet(older, dir, 0)

\* Variant: >= for >.
Emits_orEqual(growth) == growth >= 0

Emits(growth) == growth > 0

OutputLine(dir, growth) == dir \o <<SP>> \o Format2(growth)

Init ==
    /\ pc = "start"
    /\ argc \in 0..MaxArgs
    /\ fileNo = 0
    /\ files = [i \in 1..NumReports |-> Unopened]
    /\ handles = {}
    /\ lines = <<>>
    /\ lineNo = 0
    /\ building = <<>>
    /\ parsed = <<>>
    /\ older = <<>>
    /\ newer = <<>>
    /\ pos = 0
    /\ out = <<>>
    /\ err = "none"
    /\ exitCode = -1

\* Variant: the exception is caught and reported, and the script carries on
\* (with the next line, when a line raised it).
Raise_caught(e) ==
    /\ pc' = pc
    /\ err' = e
    /\ exitCode' = exitCode
    /\ handles' = handles
    /\ lines' = lines
    /\ lineNo' = IF pc = "parse" THEN lineNo + 1 ELSE lineNo
    /\ building' = building

\* An uncaught exception: traceback on the error stream, exit status 1.
Raise(e) ==
    /\ pc' = "done"
    /\ err' = e
    /\ exitCode' = 1
    /\ handles' = {}
    /\ lines' = <<>>
    /\ lineNo' = 0
    /\ building' = <<>>

CheckArgs ==
    /\ pc = "start"
    /\ IF UsageError(argc)
       THEN /\ err' = "usage"
            /\ exitCode' = 1
            /\ pc' = "done"
            /\ UNCHANGED fileNo
       ELSE /\ pc' = "open"
            /\ fileNo' = 1
            /\ UNCHANGED <<err, exitCode>>
    /\ UNCHANGED <<argc, files, handles, lines, lineNo, building, parsed,
                   older, newer, pos, out>>

\* open(file_name).readlines() and the inner list comprehension.
OpenRead ==
    /\ pc = "open"
    /\ \E f \in FileStates :
         /\ files' = [files EXCEPT ![fileNo] = f]
         /\ IF f = Missing
            THEN Raise("FileNotFoundError")
            ELSE /\ handles' = handles \cup {fileNo}
                 /\ lines' = TokenLists(f.content)
                 /\ lineNo' = 0
                 /\ building' = <<>>
                 /\ pc' = "parse"
                 /\ UNCHANGED <<err, exitCode>>
    /\ UNCHANGED <<argc, fileNo, parsed, older, newer, pos, out>>

\* One round of the dict comprehension.
ParseLine ==
    /\ pc = "parse"
    /\ lineNo < Len(lines)
    /\ LET s == lines[lineNo + 1] IN
         IF LineError(s) # "none"
         THEN Raise(LineError(s))
         ELSE /\ building' = DictPut(building, LineKey(s), LineValue(s))
              /\ lineNo' = lineNo + 1
              /\ UNCHANGED <<pc, err, exitCode, handles, lines>>
    /\ UNCHANGED <<argc, fileNo, files, parsed, older, newer, pos, out>>

\* into_dict returns; after the second report, older and newer are bound.
Return ==
    /\ pc = "parse"
    /\ lineNo = Len(lines)
    /\ parsed' = Append(parsed, building)
    /\ lines' = <<>>
    /\ lineNo' = 0
    /\ building' = <<>>
    /\ IF fileNo = NumReports
       THEN /\ older' = Unpack(parsed').older
            /\ newer' = Unpack(parsed').newer
            /\ pc' = "compare"
            /\ UNCHANGED fileNo
       ELSE /\ fileNo' = fileNo + 1
            /\ pc' = "open"
            /\ UNCHANGED <<older, newer>>
    /\ UNCHANGED <<argc, files, handles, pos, out, err, exitCode>>

\* One round of the for loop over newer.items().
CompareStep ==
    /\ pc = "compare"
    /\ pos < Len(newer)
    /\ LET dir == newer[pos + 1][1]
           size == newer[pos + 1][2]
           growth == Growth(dir, size)
       IN out' = IF Emits(growth) THEN Append(out, OutputLine(dir, growth)) ELSE out
    /\ pos' = pos + 1
    /\ UNCHANGED <<pc, argc, fileNo, files, handles, lines, lineNo, building,
                   parsed, older, newer, err, exitCode>>

\* The script runs off its end.
Exit ==
    /\ pc = "compare"
    /\ pos = Len(newer)
    /\ pc' = "done"
    /\ exitCode' = 0
    /\ handles' = {}
    /\ UNCHANGED <<argc, fileNo, files, lines, lineNo, building, parsed,
                   older, newer, pos, out, err>>

\* The steps of the script.
Next ==
    \/ CheckArgs
    \/ OpenRead
    \/ ParseLine
    \/ Return
    \/ CompareStep
    \/ Exit

Spec == Init /\ [][Next]_vars

\* The script never closes a file object: an open one is closed when the
\* interpreter finalizes it, at a moment of the interpreter's choosing (at
\* once under reference counting, later or never before exit otherwise).
Finalize ==
    /\ pc # "done"
    /\ \E h \in handles : handles' = handles \ {h}
    /\ UNCHANGED <<pc, argc, fileNo, files, lines, lineNo, building, parsed,
                   older, newer, pos, out, err, exitCode>>

\* The script together with the interpreter's finalizer.
NextGC ==
    \/ Next
    \/ Finalize

SpecGC == Init /\ [][NextGC]_vars

----------------------------------------------------------------------------
(* Reading the inputs and the output back, for the properties below *)

FileRead(i) == files[i].st = "read"

Content(i) == files[i].content

BlankLine(l) == \A i \in 1..Len(l) : IsSpace(l[i])

\* The tokens of each report line, tabulated.
Tokens == [l \in ReportLines |-> Split(l)]

NumericLast == { l \in ReportLines : Len(Tokens[l]) >= 1 /\ IsFloat(Tokens[l][Len(Tokens[l])]) }

BadNumberLine(l) == Len(Tokens[l]) >= 1 /\ l \notin NumericLast

WellFormedLine(l) == l \in NumericLast

WellFormedFile(i) == FileRead(i) /\ \A n \in 1..Len(Content(i)) : WellFormedLine(Content(i)[n])

LineKeys == [l \in ReportLines |-> JoinSpace(SubSeq(Tokens[l], 1, Len(Tokens[l]) - 1))]

LineValues == [l \in NumericLast |-> FloatOf(Tokens[l][Len(Tokens[l])])]

KeyOfLine(l) == LineKeys[l]

ValueOfLine(l) == LineValues[l]

\* Index of the first, and of the last, line of a content that has key k.
FirstLineWith(c, k) == CHOOSE n \in 1..Len(c) :
    KeyOfLine(c[n]) = k /\ \A m \in 1..(n - 1) : KeyOfLine(c[m]) # k

LastLineWith(c, k) == CHOOSE n \in 1..Len(c) :
    KeyOfLine(c[n]) = k /\ \A m \in (n + 1)..Len(c) : KeyOfLine(c[m]) # k

\* The size a mapping holds for key k, 0 when it holds none.
SizeIn(d, k) ==
    IF \E i \in 1..Len(d) : d[i][1] = k
    THEN d[CHOOSE i \in 1..Len(d) : d[i][1] = k][2]
    ELSE 0

\* An output line is "<dir> <growth>": the growth is its last token.
OutKey(l) == LET t == Split(l) IN JoinSpace(SubSeq(t, 1, Len(t) - 1))

OutText(l) == LET t == Split(l) IN t[Len(t)]

\* The keys, and ten times the growth values, of the lines printed so far.
OutKeys == [j \in 1..Len(out) |-> OutKey(out[j])]

\* Ten times the number a growth text d.d or d[.d]e+XX denotes.
ShownTimes10(t) ==
    LET ePos == IF \E i \in 1..Len(t) : t[i] = "e"
                THEN CHOOSE i \in 1..Len(t) : t[i] = "e"
                ELSE Len(t) + 1
        mant == SubSeq(t, 1, ePos - 1)
        d1 == DigitVal(mant[1])
        d2 == IF Len(mant) = 3 THEN DigitVal(mant[3]) ELSE 0
        ex == IF ePos <= Len(t) THEN FloatOf(SubSeq(t, ePos + 2, Len(t))) ELSE 0
    IN (10 * d1 + d2) * Pow10(ex)

OutShown == [j \in 1..Len(out) |-> ShownTimes10(OutText(out[j]))]

Abs(x) == IF x < 0 THEN -x ELSE x

\* v10 / 10 is a value of two significant digits nearest to g.
NearestTwoDigits(v10, g) ==
    IF NumDigits(g) <= 2
    THEN v10 = 10 * g
    ELSE LET unit == Pow10(NumDigits(g) - 2) IN
         /\ v10 % (10 * unit) = 0
         /\ 2 * Abs(v10 - 10 * g) <= 10 * unit

\* A step of the dict comprehension on the current line.
ParseStepTaken == pc = "parse" /\ lineNo < Len(lines) /\ (lineNo' # lineNo \/ pc' # pc)

----------------------------------------------------------------------------
(* Properties *)

\* C1 (as stated): for every key d of newer the loop has reached, a line for d
\* is printed iff newer[d] - older.get(d, 0) > 0, the growth value on the line
\* is exactly that difference, and every printed growth is strictly positive.
C1_GrowthExact ==
    Unpacked =>
      LET keys == OutKeys
          shown == OutShown
      IN /\ \A i \in 1..Len(newer) :
              LET d == newer[i][1]
                  g == newer[i][2] - SizeIn(older, d)
                  at == { j \in 1..Len(out) : keys[j] = d }
              IN /\ i <= pos => ((at # {}) <=> (g > 0))
                 /\ i > pos => at = {}
                 /\ \A j \in at : shown[j] = 10 * g
         /\ \A j \in 1..Len(out) : shown[j] > 0

\* C1 (amended): as above, but the growth value on the line is the difference
\* rendered with two significant digits, hence equal to it when the
\* difference has at most two significant digits.
C1_GrowthTwoDigits ==
    Unpacked =>
      LET keys == OutKeys
          shown == OutShown
      IN /\ \A i \in 1..Len(newer) :
              LET d == newer[i][1]
                  g == newer[i][2] - SizeIn(older, d)
                  at == { j \in 1..Len(out) : keys[j] = d }
              IN /\ i <= pos => ((at # {}) <=> (g > 0))
                 /\ i > pos => at = {}
                 /\ \A j \in at : NearestTwoDigits(shown[j], g)
         /\ \A j \in 1..Len(out) : shown[j] > 0

\* The run is over; one key grew and was printed, one shrank, one stayed equal
\* or is new.
C1_Witness ==
    /\ pc = "done"
    /\ exitCode = 0
    /\ Len(newer) = 2
    /\ Len(out) = 1
    /\ \E i \in 1..Len(newer) : newer[i][2] - SizeIn(older, newer[i][1]) <= 0
    /\ \E i \in 1..Len(newer) :
         /\ newer[i][2] - SizeIn(older, newer[i][1]) > 0
         /\ SizeIn(older, newer[i][1]) > 0

\* C2: with a number of positional arguments other than two the script writes
\* the usage message to the error stream, exits with code 1 and prints
\* nothing; with exactly two the usage error is never raised.
C2_UsageError ==
    /\ argc # 2 =>
         /\ pc \in {"start", "done"}
         /\ out = <<>>
         /\ files = [i \in 1..NumReports |-> Unopened]
         /\ pc = "done" => (err = "usage" /\ exitCode = 1)
    /\ argc = 2 => err # "usage"

C2_Witness == argc = 3 /\ pc = "done" /\ err = "usage" /\ exitCode = 1

\* C3: nothing is printed before both reports have been read and parsed to
\* completion; a run in which opening or parsing either report fails ends
\* with no output line.
C3_NoOutputBeforeBothParsed ==
    /\ out # <<>> =>
         /\ Len(parsed) = NumReports
         /\ pc \in {"compare", "done"}
         /\ \A i \in 1..NumReports : WellFormedFile(i)
    /\ (\E i \in 1..NumReports : files[i].st # "unopened" /\ ~WellFormedFile(i)) =>
         /\ out = <<>>
         /\ pc = "done" => exitCode = 1

\* The new report failed on its second line, after a first line that had grown.
C3_Witness ==
    /\ pc = "done"
    /\ exitCode = 1
    /\ WellFormedFile(1)
    /\ FileRead(2)
    /\ Len(Content(2)) = 2
    /\ WellFormedLine(Content(2)[1])
    /\ ValueOfLine(Content(2)[1]) > 0
    /\ ~WellFormedLine(Content(2)[2])
    /\ out = <<>>

\* C4: when the comprehension handles a line that splits into n >= 1 tokens
\* with a numeric last token, the mapping then maps the first n-1 tokens
\* joined by single spaces to the number the last token denotes; the key
\* holds no whitespace but those single spaces and is empty when n = 1.
C4_LineToEntry ==
    [][ParseStepTaken =>
          LET raw == Content(fileNo)[lineNo + 1]
              toks == Split(raw)
              n == Len(toks)
              key == JoinSpace(SubSeq(toks, 1, n - 1))
          IN (n >= 1 /\ IsFloat(toks[n])) =>
               /\ lineNo' = lineNo + 1
               /\ pc' = "parse"
               /\ \E i \in 1..Len(building') :
                    building'[i] = <<key, FloatOf(toks[n])>>
               /\ \A i \in 1..Len(building') :
                    building'[i][1] = key => building'[i][2] = FloatOf(toks[n])
               /\ n = 1 => key = <<>>
               /\ \A c \in 1..Len(key) :
                    /\ key[c] \notin {TAB, NL}
                    /\ key[c] = SP => (1 < c /\ c < Len(key) /\ key[c + 1] # SP)
    ]_vars

\* The line "a <space><tab> b 125" has just become the entry "a b" -> 125.
C4_Witness ==
    /\ pc = "parse"
    /\ lineNo >= 1
    /\ Content(fileNo)[lineNo] = <<"a", SP, TAB, "b", SP, "1", "2", "5", NL>>
    /\ \E i \in 1..Len(building) : building[i] = <<<<"a", SP, "b">>, 125>>

\* C5: no line is ever printed for a key that is in the old report and not in
\* the new one; the keys in the output are keys of the new report.
C5_OutputKeysFromNewer ==
    out # <<>> =>
      LET keys == OutKeys IN
      /\ FileRead(2)
      /\ \A j \in 1..Len(out) :
           /\ \E n \in 1..Len(Content(2)) : KeyOfLine(Content(2)[n]) = keys[j]
           /\ \E i \in 1..Len(newer) : newer[i][1] = keys[j]
      /\ \A i \in 1..Len(older) :
           (\A n \in 1..Len(newer) : newer[n][1] # older[i][1])
             => \A j \in 1..Len(out) : keys[j] # older[i][1]

\* The run is over, something was printed, and the old report has a key with
\* a positive size that the new report lacks.
C5_Witness ==
    /\ pc = "done"
    /\ exitCode = 0
    /\ out # <<>>
    /\ \E i \in 1..Len(older) :
         /\ older[i][2] > 0
         /\ \A n \in 1..Len(newer) : newer[n][1] # older[i][1]

\* C6: a report with a line whose last token is not a number yields no
\* mapping: into_dict never returns for it, older and newer are never bound,
\* nothing is printed, and the run ends with an uncaught exception, wherever
\* the line stands in the report.
C6_BadNumberFailsReport ==
    \A i \in 1..NumReports :
      (FileRead(i) /\ \E n \in 1..Len(Content(i)) : BadNumberLine(Content(i)[n])) =>
        /\ Len(parsed) < i
        /\ older = <<>> /\ newer = <<>>
        /\ out = <<>>
        /\ \/ pc = "parse" /\ fileNo = i /\ exitCode = -1
           \/ pc = "done" /\ exitCode = 1 /\ err \in {"ValueError", "IndexError"}

\* The new report failed on a non-numeric size in its last line, after a
\* well-formed first line.
C6_Witness ==
    /\ pc = "done"
    /\ err = "ValueError"
    /\ FileRead(2)
    /\ Len(Content(2)) = 2
    /\ WellFormedLine(Content(2)[1])
    /\ BadNumberLine(Content(2)[2])
    /\ Len(parsed) = 1

\* C7: the old report's handle is released before the new report is opened,
\* both are released before the comparison starts, and two handles are never
\* open at once.
C7_HandlesReleased ==
    /\ Cardinality(handles) <= 1
    /\ (pc \in {"open", "parse"} /\ fileNo = 2) => 1 \notin handles
    /\ pc = "compare" => handles = {}

\* C8: a report with a line of no tokens makes parsing throw: the
\* comprehension never gets past that line, there is no mapping and no
\* output, and the run ends abnormally, with the exception of the access to
\* the last token when no other line is malformed.
C8_BlankLineThrows ==
    \A i \in 1..NumReports :
      (FileRead(i) /\ \E n \in 1..Len(Content(i)) : BlankLine(Content(i)[n])) =>
        /\ Len(parsed) < i
        /\ older = <<>> /\ newer = <<>>
        /\ out = <<>>
        /\ (pc = "parse" /\ fileNo = i) =>
             \A n \in 1..lineNo : ~BlankLine(Content(i)[n])
        /\ \/ pc = "parse" /\ fileNo = i /\ exitCode = -1
           \/ /\ pc = "done" /\ exitCode = 1
              /\ err \in {"ValueError", "IndexError"}
              /\ (\A n \in 1..Len(Content(i)) :
                    BlankLine(Content(i)[n]) \/ WellFormedLine(Content(i)[n]))
                 => err = "IndexError"

\* The old report ended the run on a blank second line.
C8_Witness ==
    /\ pc = "done"
    /\ err = "IndexError"
    /\ FileRead(1)
    /\ Len(Content(1)) = 2
    /\ WellFormedLine(Content(1)[1])
    /\ BlankLine(Content(1)[2])
    /\ files[2] = Unopened
    /\ out = <<>>

\* C9: the output has at most one line per key of newer, and its lines stand
\* in the order in which their keys first occur in the new report; at the
\* end the keys printed are those of positive growth.
C9_OutputInInsertionOrder ==
    /\ (pc = "done" /\ exitCode = 0) =>
         { OutKey(out[j]) : j \in 1..Len(out) }
           = { newer[i][1] : i \in { n \in 1..Len(newer) :
                                       newer[n][2] - SizeIn(older, newer[n][1]) > 0 } }
    /\ out # <<>> =>
      LET keys == OutKeys
          first == [j \in 1..Len(out) |-> FirstLineWith(Content(2), keys[j])]
      IN /\ \A j \in 1..Len(out) : \A k \in 1..Len(out) :
              /\ j < k => first[j] < first[k]
              /\ keys[j] = keys[k] => j = k

\* Two lines were printed, "a b" before "a": not the order of the names.
C9_Witness ==
    /\ pc = "done"
    /\ Len(out) = 2
    /\ OutKey(out[1]) = <<"a", SP, "b">>
    /\ OutKey(out[2]) = <<"a">>

\* C10: a parsed report holds each key once, with the size of the last line
\* of the report that has this key, and holds exactly the keys of its lines.
C10_LastOccurrenceWins ==
    \A i \in 1..Len(parsed) :
      LET d == parsed[i]
          c == Content(i)
      IN /\ \A a \in 1..Len(d) : \A b \in 1..Len(d) : d[a][1] = d[b][1] => a = b
         /\ { d[a][1] : a \in 1..Len(d) } = { KeyOfLine(c[n]) : n \in 1..Len(c) }
         /\ \A a \in 1..Len(d) : d[a][2] = ValueOfLine(c[LastLineWith(c, d[a][1])])

\* "a b 2" and then "a <space><tab> b 125" in one report: one entry, 125.
C10_Witness ==
    /\ Len(parsed) >= 1
    /\ Content(1) = << <<"a", SP, "b", SP, "2", NL>>,
                       <<"a", SP, TAB, "b", SP, "1", "2", "5", NL>> >>
    /\ parsed[1] = << <<<<"a", SP, "b">>, 125>> >>

====
